---- MODULE Spec2Model ----
(***************************************************************************)
(* fivetwo: the card store (SQLite tables, CHECK constraints, triggers)    *)
(* and the HTTP handlers of src/src/server.ts that read and write it.      *)
(* A handler is one action, except PATCH /cards/:id, which reads the card, *)
(* then awaits the request body, then validates and writes: two steps      *)
(* between which other requests run.                                       *)
(***************************************************************************)
EXTENDS Integers, Sequences, FiniteSets, Bags, TLC

VARIABLES
  projects,     \* table projects: sequence of rows, id = position
  cards,        \* table cards: sequence of rows, id = position
  comments,     \* table comments: sequence of rows, id = position
  card_references, \* table card_references: set of rows
  refSeq,       \* sqlite_sequence of card_references (AUTOINCREMENT)
  cards_audit,  \* table cards_audit: rows in insertion order
  cards_fts,    \* the full-text index cards_fts: a set of postings
  now,          \* CURRENT_TIMESTAMP, in seconds
  req,          \* the PATCH requests in flight: a bag of the locals of each
                \* handler that has read its card and awaits its body
  last,         \* the call that completed last: its inputs, its HTTP status
                \* (and error text where two errors share a status) and the
                \* tables as they were when it was processed
  applied,      \* history: per card, number of UPDATE statements PATCH has committed
  wins,         \* history: <<card, version>> of each successful PATCH that sent
                \* the version it had read and a value differing from what it had read
  qualifying,   \* history: per card, number of mutations that are to bump its version
  tui           \* the terminal UI: the fields of the FivetwoTUI object, what its
                \* three screen elements show and its card loads in flight

vars == <<projects, cards, comments, card_references, refSeq, cards_audit,
          cards_fts, now, req, last, applied, wins, qualifying, tui>>

otherTables == <<projects, comments, card_references, refSeq>>

-----------------------------------------------------------------------------
(* Bounds of the model *)

MaxUpdates == 2      \* audit rows / card versions explored
MaxHandlers == 2     \* PATCH requests in flight together
MaxCards == 2        \* rows of table cards
MaxWrites == 5       \* rows inserted, updated or deleted, over all tables

-----------------------------------------------------------------------------
(* Values *)

Null == "NULL"       \* SQL NULL and JSON null

validStatuses ==
  {"backlog", "in_progress", "review", "blocked", "done", "wont_do", "invalid"}

cardTypes == {"story", "bug", "task", "epic", "spike", "chore"}

\* A number of a JSON body or of a column is an integer n, written n, or
\* n + 1/2, written Half(n): the values from HalfOrigin - HalfSpan up stand
\* for the non-integers, and every integer the model uses lies below them.
HalfOrigin == 1000
HalfSpan == 500
Half(n) == HalfOrigin + n
IsInteger(x) == x < HalfOrigin - HalfSpan

\* twice the number x stands for, which is an integer
Doubled(x) == IF IsInteger(x) THEN 2 * x ELSE 2 * (x - HalfOrigin) + 1

\* a < b and a > b on numbers
NumLess(a, b) == Doubled(a) < Doubled(b)
NumGreater(a, b) == Doubled(a) > Doubled(b)

users == {1}         \* rows of table users (created by mkhuman / mkagent)
Callers == {1, 2}    \* the sub of a signed token; 2 has no row in users
                     \* (POST /cards and POST comments then fail on created_by)

PatchColumns == {"title", "description", "status", "priority"}

\* A JSON body: a record holding exactly the keys that are present.
Opt(k, S) == {<<>>} \cup {[kk \in {k} |-> v] : v \in S}

\* the columns of the bodies sent: none, each column alone with values the
\* handler accepts and values it is to reject, and two columns together
ColumnBodies ==
  Opt("title", {"t2"}) \cup Opt("description", {Null, "d1"})
    \cup Opt("status", {"done", "", "not_a_status"})
    \cup Opt("priority", {75, 101})
    \cup {[title |-> "t2", description |-> Null],
          [status |-> "done", priority |-> 75]}

\* the bodies sent by a caller that has seen the card: the columns alone, and
\* with the version it has seen or with another one
PatchBodies(seen) ==
  ColumnBodies \cup
    {f @@ [version |-> v] :
       f \in Opt("title", {"t2"}) \cup Opt("description", {Null}),
       v \in {seen.version, seen.version + 1}}

Has(body, k) == k \in DOMAIN body

\* JSON null; the priorities the model sends are numbers, never null
IsNull(body, k) == k # "priority" /\ body[k] = Null

\* JavaScript a ?? b : b when a is undefined or null
Coalesce(body, k, dflt) ==
  IF Has(body, k) /\ ~IsNull(body, k) THEN body[k] ELSE dflt

-----------------------------------------------------------------------------
(* Schema: cards *)

\* INSERT INTO cards (...): the row with the schema's defaults
InsertCard(id, project_id, title, description, status, priority, created_by) ==
  [id |-> id, project_id |-> project_id, title |-> title,
   description |-> description, status |-> status, priority |-> priority,
   type |-> "task", created_by |-> created_by, created_at |-> now,
   version |-> 1]

\* NOT NULL, CHECK and REFERENCES of table cards
CardConstraintsOk(row) ==
  /\ row.title # Null
  /\ row.status \in validStatuses
  /\ ~NumLess(row.priority, 0) /\ ~NumGreater(row.priority, 100)
  /\ row.type \in cardTypes
  /\ row.project_id \in DOMAIN projects
  /\ row.created_by \in users

\* SQL a != b : NULL (not true) when either side is NULL
SqlNe(a, b) == a # Null /\ b # Null /\ a # b

\* SQL a IS NOT b
SqlIsNot(a, b) == a # b

VersionWhenNoNullCompare(old, new) ==
  \/ SqlNe(old.title, new.title)
  \/ SqlNe(old.description, new.description)
  \/ SqlNe(old.status, new.status)
  \/ old.priority # new.priority

\* WHEN clause of trigger increment_card_version_on_update
VersionWhen(old, new) ==
  \/ SqlNe(old.title, new.title)
  \/ SqlIsNot(old.description, new.description)
  \/ SqlNe(old.status, new.status)
  \/ old.priority # new.priority

\* AFTER UPDATE ON cards: the row after the trigger has run.  The trigger's
\* own UPDATE of version does not fire it again (recursive_triggers is off,
\* and its WHEN clause is false for a version-only change).
IncrementCardVersionOnUpdate(old, new) ==
  IF VersionWhen(old, new) THEN [new EXCEPT !.version = @ + 1] ELSE new

-----------------------------------------------------------------------------
(* Schema: the full-text index of migration 003 *)

\* the tokens of a text: the default tokenizer (unicode61) folds case and
\* splits at every character that is neither a letter nor a digit
Tokens(text) ==
  IF text = Null \/ text = "" THEN <<>>
  ELSE IF text = "fix crash" THEN <<"fix", "crash">>
  ELSE IF text = "Crash" THEN <<"crash">>
  ELSE <<text>>

\* what the index holds for a row: one posting per token of each column
Postings(rowid, title, description) ==
  {[rowid |-> rowid, column |-> "title", term |-> Tokens(title)[i], offset |-> i] :
     i \in DOMAIN Tokens(title)}
  \cup
  {[rowid |-> rowid, column |-> "description",
    term |-> Tokens(description)[i], offset |-> i] :
     i \in DOMAIN Tokens(description)}

\* INSERT INTO cards_fts(rowid, title, description)
FtsInsert(fts, rowid, title, description) ==
  fts \cup Postings(rowid, title, description)

\* INSERT INTO cards_fts(cards_fts, rowid, title, description)
\* VALUES ('delete', ...): removes the postings of the values given
FtsDelete(fts, rowid, title, description) ==
  fts \ Postings(rowid, title, description)

\* the tokens the index counts in a column over all rows (its averages
\* record); equal to the number of postings while index and table agree
ColumnTotal(fts, column) == Cardinality({p \in fts : p.column = column})

\* the 'delete' command fails (SQLITE_CORRUPT_VTAB, "database disk image is
\* malformed") when the values given hold more tokens in a column than the
\* index counts in that column over all rows
FtsDeleteFails(fts, title, description) ==
  \/ Len(Tokens(title)) > ColumnTotal(fts, "title")
  \/ Len(Tokens(description)) > ColumnTotal(fts, "description")

\* trigger cards_fts_insert, AFTER INSERT ON cards
cards_fts_insert(fts, new) == FtsInsert(fts, new.id, new.title, new.description)

cards_fts_update_keeping_old(fts, old, new) ==
  FtsInsert(fts, new.id, new.title, new.description)

\* trigger cards_fts_update, AFTER UPDATE ON cards
cards_fts_update(fts, old, new) ==
  FtsInsert(FtsDelete(fts, old.id, old.title, old.description),
            new.id, new.title, new.description)

\* The two AFTER UPDATE triggers of cards fire in an order SQLite leaves
\* undefined (it fires the one created last, the version trigger, first).
UpdateTriggers == {"cards_fts_update", "increment_card_version_on_update"}

\* UPDATE cards SET ... throws in a trigger.  When the version trigger fires
\* first, its UPDATE of version fires cards_fts_update with the new title
\* and description as OLD while the index still holds the old ones.
UpdateThrows(fts, old, new, first) ==
  /\ first = "increment_card_version_on_update"
  /\ VersionWhen(old, new)
  /\ FtsDeleteFails(fts, new.title, new.description)

\* the index after the UPDATE statements that turned the rows of before
\* into those of after, a version bump by a trigger included: each row
\* updated fires cards_fts_update once per statement, and the statements
\* after the first leave title and description as they are
RECURSIVE CardsFtsAfterUpdates(_, _, _, _)
CardsFtsAfterUpdates(fts, before, after, n) ==
  IF n = 0 THEN fts
  ELSE CardsFtsAfterUpdates(
         IF before[n] # after[n]
           THEN cards_fts_update(fts, before[n], after[n]) ELSE fts,
         before, after, n - 1)

-----------------------------------------------------------------------------
(* PATCH /cards/:id *)

\* body.status && !validStatuses.includes(body.status)
StatusRejected(body) ==
  Has(body, "status") /\ body.status \notin {"", Null}
    /\ body.status \notin validStatuses

\* body.priority !== undefined && (body.priority < 0 || body.priority > 100)
PriorityRejected(body) ==
  Has(body, "priority")
    /\ (NumLess(body.priority, 0) \/ NumGreater(body.priority, 100))

\* the columns pushed to updates[]
Updates(body) == DOMAIN body \cap PatchColumns

SetClauseCoalesced(row, body) ==
  [f \in DOMAIN row |->
     IF f \in Updates(body) THEN Coalesce(body, f, row[f]) ELSE row[f]]

SetClauseUnlessTerminal(row, body) ==
  IF row.status \in {"done", "wont_do", "invalid"} THEN row
  ELSE [f \in DOMAIN row |->
          IF f \in DOMAIN body \cap PatchColumns THEN body[f] ELSE row[f]]

\* UPDATE cards SET <updates> WHERE id = ? : the new row before triggers
SetClause(row, body) ==
  [f \in DOMAIN row |-> IF f \in Updates(body) THEN body[f] ELSE row[f]]

\* the parameters of INSERT INTO cards_audit
AuditRow(cardId, existingCard, body, userId) ==
  [card_id |-> cardId,
   old_status |-> existingCard.status,
   new_status |-> Coalesce(body, "status", existingCard.status),
   old_title |-> existingCard.title,
   new_title |-> Coalesce(body, "title", existingCard.title),
   old_description |-> existingCard.description,
   new_description |-> Coalesce(body, "description", existingCard.description),
   old_priority |-> existingCard.priority,
   new_priority |-> Coalesce(body, "priority", existingCard.priority),
   changed_by |-> userId]

\* NOT NULL and REFERENCES of table cards_audit
AuditConstraintsOk(row) ==
  /\ row.card_id \in 1..Len(cards)
  /\ row.changed_by \in users

AuditInsertIfChanged(log, row) ==
  IF \/ row.old_status # row.new_status
     \/ row.old_title # row.new_title
     \/ row.old_description # row.new_description
     \/ row.old_priority # row.new_priority
  THEN Append(log, row) ELSE log

AuditInsertLatestOnly(log, row) == <<row>>

\* INSERT INTO cards_audit
AuditInsert(log, row) == Append(log, row)

\* a mutation of the card that counts: the stored value of title,
\* description, status or priority differs before and after
ValueChanged(before, after) == \E f \in PatchColumns : before[f] # after[f]

NoCall == [status |-> 0]

RECURSIVE Sum(_)
Sum(seq) == IF seq = <<>> THEN 0 ELSE Head(seq) + Sum(Tail(seq))

\* the statements that have written so far: every INSERT, every UPDATE of
\* cards by PATCH, every soft delete, every DELETE of a reference
Writes ==
  Len(projects) + Len(cards) + Len(comments)
    + Cardinality({i \in DOMAIN comments : comments[i].status = "deleted"})
    + refSeq + (refSeq - Cardinality(card_references))
    + Sum(applied)

\* within the budget of the model
InBudget(cardId) == applied[cardId] < MaxUpdates /\ Writes < MaxWrites

\* lines 274-283: read existingCard, 404 when there is none
PatchBegin(cardId, userId) ==
  /\ BagCardinality(req) < MaxHandlers
  /\ Writes < MaxWrites
  /\ cardId \in DOMAIN cards => InBudget(cardId)
  /\ IF cardId \in 1..Len(cards)
       THEN /\ req' = req (+) SetToBag({[cardId |-> cardId, userId |-> userId,
                                         existingCard |-> cards[cardId]]})
            /\ last' = last
       ELSE /\ req' = req
            /\ last' = [status |-> 404, op |-> "PATCH", cardId |-> cardId,
                        userId |-> userId, body |-> <<>>,
                        pre |-> cards, auditPre |-> cards_audit,
                        preOther |-> otherTables]
  /\ UNCHANGED <<tui, cards, cards_audit, cards_fts, now, applied, wins, qualifying,
                 otherTables>>

\* lines 285-366: the body has arrived; validate, UPDATE, audit, re-read
PatchProcess(r, body) ==
  /\ BagIn(r, req)
  /\ InBudget(r.cardId)
  /\ \E first \in UpdateTriggers :
     LET cardId == r.cardId
         userId == r.userId
         existingCard == r.existingCard
         stored == cards[cardId]
         updated == IncrementCardVersionOnUpdate(stored, SetClause(stored, body))
         cardsUpdated == [cards EXCEPT ![cardId] = updated]
         audit == AuditRow(cardId, existingCard, body, userId)
         Reply(status, cardsAfter, auditAfter, committed) ==
           /\ cards' = cardsAfter
           /\ cards_fts' = IF committed = 1
                              THEN cards_fts_update(cards_fts, stored, updated)
                              ELSE cards_fts
           /\ cards_audit' = auditAfter
           /\ last' = [status |-> status, op |-> "PATCH", cardId |-> cardId,
                       userId |-> userId, body |-> body,
                       pre |-> cards, auditPre |-> cards_audit,
                       preOther |-> otherTables]
           /\ applied' = [applied EXCEPT ![cardId] = @ + committed]
           /\ qualifying' = IF ValueChanged(stored, cardsAfter[cardId])
                               THEN [qualifying EXCEPT ![cardId] = @ + 1]
                               ELSE qualifying
           /\ wins' = IF /\ status = 200
                         /\ Has(body, "version")
                         /\ body.version = existingCard.version
                         /\ SetClause(existingCard, body) # existingCard
                        THEN Append(wins, <<cardId, body.version>>)
                        ELSE wins
     IN  /\ req' = req (-) SetToBag({r})
         /\ UNCHANGED <<tui, otherTables, now>>
         /\ IF StatusRejected(body) \/ PriorityRejected(body)
              THEN Reply(400, cards, cards_audit, 0)
            ELSE IF Updates(body) = {}
              THEN Reply(400, cards, cards_audit, 0)
            ELSE IF ~CardConstraintsOk(SetClause(stored, body))
              \* the UPDATE throws: the statement is rolled back
              THEN Reply(500, cards, cards_audit, 0)
            ELSE IF UpdateThrows(cards_fts, stored, SetClause(stored, body), first)
              THEN Reply(500, cards, cards_audit, 0)
            ELSE IF ~AuditConstraintsOk(audit)
              \* the UPDATE has committed; the INSERT throws
              THEN Reply(500, cardsUpdated, cards_audit, 1)
            ELSE Reply(200, cardsUpdated, AuditInsert(cards_audit, audit), 1)

\* The process dies after db.run(UPDATE) has committed and before
\* db.run(INSERT INTO cards_audit): every request in flight is lost.
PatchCrash(r, body) ==
  /\ BagIn(r, req)
  /\ InBudget(r.cardId)
  /\ LET cardId == r.cardId
         stored == cards[cardId]
     IN  /\ ~StatusRejected(body) /\ ~PriorityRejected(body)
         /\ Updates(body) # {}
         /\ CardConstraintsOk(SetClause(stored, body))
         /\ \E first \in UpdateTriggers :
              ~UpdateThrows(cards_fts, stored, SetClause(stored, body), first)
         /\ cards' = [cards EXCEPT ![cardId] =
                        IncrementCardVersionOnUpdate(stored, SetClause(stored, body))]
         /\ cards_fts' = cards_fts_update(cards_fts, stored, SetClause(stored, body))
         /\ applied' = [applied EXCEPT ![cardId] = @ + 1]
         /\ qualifying' = IF ValueChanged(stored, SetClause(stored, body))
                             THEN [qualifying EXCEPT ![cardId] = @ + 1]
                             ELSE qualifying
  /\ req' = EmptyBag
  /\ last' = NoCall
  /\ UNCHANGED <<tui, cards_audit, now, wins, otherTables>>

-----------------------------------------------------------------------------
(* Schema: comments, card_references and their version triggers *)

referenceTypes ==
  {"blocks", "blocked_by", "relates_to", "duplicates", "duplicated_by",
   "parent_of", "child_of", "follows", "precedes", "clones", "cloned_by"}

BumpVersion(cs, cardId) ==
  IF cardId \in DOMAIN cs THEN [cs EXCEPT ![cardId].version = @ + 1] ELSE cs

\* NOT NULL, CHECK and REFERENCES of table comments
CommentConstraintsOk(row) ==
  /\ row.card_id \in DOMAIN cards
  /\ row.message # Null
  /\ row.created_by \in users
  /\ row.status \in {"created", "deleted"}

IncrementEveryCardVersionOnCommentAdd(cs, new) ==
  [c \in DOMAIN cs |-> [cs[c] EXCEPT !.version = @ + 1]]

\* trigger increment_card_version_on_comment_add
IncrementCardVersionOnCommentAdd(cs, new) == BumpVersion(cs, new.card_id)

\* trigger increment_card_version_on_comment_delete
IncrementCardVersionOnCommentDelete(cs, old, new) ==
  IF old.status # "deleted" /\ new.status = "deleted"
    THEN BumpVersion(cs, new.card_id) ELSE cs

\* the text shown for a reference type
REFERENCE_TYPE_LABELS ==
  [blocks |-> "Blocks", blocked_by |-> "Blocked by", relates_to |-> "Relates to",
   duplicates |-> "Duplicates", duplicated_by |-> "Duplicated by",
   parent_of |-> "Parent of", child_of |-> "Child of",
   follows |-> "Follows", precedes |-> "Precedes",
   clones |-> "Clones", cloned_by |-> "Cloned by"]

InverseKeepingClones ==
  [blocks |-> "blocked_by", blocked_by |-> "blocks", relates_to |-> "relates_to",
   duplicates |-> "duplicated_by", duplicated_by |-> "duplicates",
   parent_of |-> "child_of", child_of |-> "parent_of",
   follows |-> "precedes", precedes |-> "follows",
   clones |-> "clones", cloned_by |-> "cloned_by"]

\* the label under which the target's side shows an edge
INVERSE_REFERENCE_TYPE ==
  [blocks |-> "blocked_by", blocked_by |-> "blocks", relates_to |-> "relates_to",
   duplicates |-> "duplicated_by", duplicated_by |-> "duplicates",
   parent_of |-> "child_of", child_of |-> "parent_of",
   follows |-> "precedes", precedes |-> "follows",
   clones |-> "cloned_by", cloned_by |-> "clones"]

ReferenceNotSelfOrFirst(row) ==
  row.source_card_id # row.target_card_id \/ card_references = {}

\* CHECK(source_card_id != target_card_id)
ReferenceNotSelf(row) == row.source_card_id # row.target_card_id

ReferenceTypeAny(row) == row.reference_type # ""

\* CHECK(reference_type IN (...))
ReferenceTypeOk(row) == row.reference_type \in referenceTypes

ReferenceUniqueAnyType(row) ==
  ~\E r \in card_references :
     /\ r.source_card_id = row.source_card_id
     /\ r.target_card_id = row.target_card_id

ReferenceUniqueOrInverse(row) ==
  ~\E r \in card_references :
     \/ /\ r.source_card_id = row.source_card_id
        /\ r.target_card_id = row.target_card_id
        /\ r.reference_type = row.reference_type
     \/ /\ r.source_card_id = row.target_card_id
        /\ r.target_card_id = row.source_card_id
        /\ r.reference_type = INVERSE_REFERENCE_TYPE[row.reference_type]

ReferenceUniqueUnlessRaced(row) ==
  \/ BagCardinality(req) > 1
  \/ ~\E r \in card_references :
        /\ r.source_card_id = row.source_card_id
        /\ r.target_card_id = row.target_card_id
        /\ r.reference_type = row.reference_type

\* UNIQUE(source_card_id, target_card_id, reference_type)
ReferenceUnique(row) ==
  ~\E r \in card_references :
     /\ r.source_card_id = row.source_card_id
     /\ r.target_card_id = row.target_card_id
     /\ r.reference_type = row.reference_type

\* NOT NULL, CHECK, UNIQUE and REFERENCES of table card_references
ReferenceConstraintsOk(row) ==
  /\ row.source_card_id \in DOMAIN cards
  /\ row.target_card_id \in DOMAIN cards
  /\ ReferenceTypeOk(row)
  /\ ReferenceNotSelf(row)
  /\ ReferenceUnique(row)

IncrementTargetVersionOnReferenceAdd(cs, new) == BumpVersion(cs, new.target_card_id)

\* trigger increment_card_version_on_reference_add
IncrementCardVersionOnReferenceAdd(cs, new) == BumpVersion(cs, new.source_card_id)

IncrementTargetVersionOnReferenceDelete(cs, old) == BumpVersion(cs, old.target_card_id)

\* trigger increment_card_version_on_reference_delete
IncrementCardVersionOnReferenceDelete(cs, old) == BumpVersion(cs, old.source_card_id)

-----------------------------------------------------------------------------
(* The other handlers: each runs to completion in one step *)

Call(op, status, args) ==
  [status |-> status, op |-> op, pre |-> cards, auditPre |-> cards_audit,
   preOther |-> otherTables] @@ args

Bump(q, cardId) == [q EXCEPT ![cardId] = @ + 1]

CreateProjectInsertsDuplicate(body) ==
  LET missing == \E k \in {"host", "owner", "repository"} :
                    ~Has(body, k) \/ body[k] = ""
      duplicate == \E i \in DOMAIN projects : projects[i] = body
      status == IF missing THEN 400 ELSE IF duplicate THEN 400 ELSE 201
      error == IF missing THEN "host, owner, and repository are required"
               ELSE IF duplicate THEN "Project already exists" ELSE ""
  IN  /\ Writes < MaxWrites
      /\ projects' = IF ~missing THEN Append(projects, body) ELSE projects
      /\ last' = Call("POST /projects", status, [body |-> body, error |-> error])
      /\ UNCHANGED <<tui, cards, comments, card_references, refSeq, cards_audit,
                     cards_fts, now, req, applied, wins, qualifying>>

ProjectUniqueAmongLatest(body) ==
  projects = <<>> \/ projects[Len(projects)] # body

\* UNIQUE(host, owner, repository) of table projects
ProjectUnique(body) == ~\E i \in DOMAIN projects : projects[i] = body

\* POST /projects.  UNIQUE(host, owner, repository) makes the INSERT of a
\* duplicate throw; the handler catches that and answers 400.
CreateProject(body) ==
  LET missing == \E k \in {"host", "owner", "repository"} :
                    ~Has(body, k) \/ body[k] = ""
      duplicate == ~ProjectUnique(body)
      status == IF missing THEN 400 ELSE IF duplicate THEN 400 ELSE 201
      error == IF missing THEN "host, owner, and repository are required"
               ELSE IF duplicate THEN "Project already exists" ELSE ""
  IN  /\ Writes < MaxWrites
      /\ projects' = IF status = 201 THEN Append(projects, body) ELSE projects
      /\ last' = Call("POST /projects", status, [body |-> body, error |-> error])
      /\ UNCHANGED <<tui, cards, comments, card_references, refSeq, cards_audit,
                     cards_fts, now, req, applied, wins, qualifying>>

\* POST /cards
CreateCard(userId, body) ==
  LET row == InsertCard(Len(cards) + 1, body.project_id, body.title,
                        Coalesce(body, "description", Null),
                        Coalesce(body, "status", "backlog"),
                        Coalesce(body, "priority", 50), userId)
      status ==
        IF ~Has(body, "project_id") \/ ~Has(body, "title") \/ body.title = ""
          THEN 400
        ELSE IF body.project_id \notin DOMAIN projects THEN 404
        ELSE IF StatusRejected(body) \/ PriorityRejected(body) THEN 400
        ELSE IF ~CardConstraintsOk(row) THEN 500
        ELSE 201
  IN  /\ Writes < MaxWrites
      /\ status = 201 => Len(cards) < MaxCards
      /\ IF status = 201
           THEN /\ cards' = Append(cards, row)
                /\ cards_fts' = cards_fts_insert(cards_fts, row)
                /\ applied' = Append(applied, 0)
                /\ qualifying' = Append(qualifying, 0)
           ELSE UNCHANGED <<cards, cards_fts, applied, qualifying>>
      /\ last' = Call("POST /cards", status, [userId |-> userId, body |-> body])
      /\ UNCHANGED <<tui, projects, comments, card_references, refSeq, cards_audit,
                     now, req, wins>>

\* POST /cards/:id/comments.  The handler awaits the body between its
\* lookup of the card and its INSERT; no handler deletes a card, so the
\* lookup's answer still holds at the INSERT.
AddComment(userId, cardId, body) ==
  LET row == [id |-> Len(comments) + 1, card_id |-> cardId,
              message |-> body.message, created_by |-> userId,
              status |-> "created"]
      status ==
        IF cardId \notin DOMAIN cards THEN 404
        ELSE IF ~Has(body, "message") \/ body.message = "" THEN 400
        ELSE IF ~CommentConstraintsOk(row) THEN 500
        ELSE 201
  IN  /\ Writes < MaxWrites
      /\ IF status = 201
           THEN /\ comments' = Append(comments, row)
                /\ cards' = IncrementCardVersionOnCommentAdd(cards, row)
                /\ qualifying' = Bump(qualifying, cardId)
           ELSE UNCHANGED <<comments, cards, qualifying>>
      /\ last' = Call("POST /cards/:id/comments", status,
                      [userId |-> userId, cardId |-> cardId, body |-> body])
      /\ cards_fts' = CardsFtsAfterUpdates(cards_fts, cards, cards', Len(cards))
      /\ UNCHANGED <<tui, projects, card_references, refSeq, cards_audit,
                     now, req, applied, wins>>

DeleteCommentAgain(commentId) ==
  LET status == IF commentId \notin DOMAIN comments THEN 404 ELSE 200
  IN  /\ Writes < MaxWrites
      /\ IF status = 200
           THEN LET old == comments[commentId]
                    new == [old EXCEPT !.status = "deleted"]
                IN  /\ comments' = [comments EXCEPT ![commentId] = new]
                    /\ cards' = IncrementCardVersionOnCommentDelete(cards, old, new)
                    /\ qualifying' = IF old.status = "deleted" THEN qualifying
                                      ELSE Bump(qualifying, old.card_id)
           ELSE UNCHANGED <<comments, cards, qualifying>>
      /\ last' = Call("DELETE /comments/:id", status, [commentId |-> commentId])
      /\ cards_fts' = CardsFtsAfterUpdates(cards_fts, cards, cards', Len(cards))
      /\ UNCHANGED <<tui, projects, card_references, refSeq, cards_audit,
                     now, req, applied, wins>>

\* DELETE /comments/:id
DeleteComment(commentId) ==
  LET status ==
        IF commentId \notin DOMAIN comments THEN 404
        ELSE IF comments[commentId].status = "deleted" THEN 400
        ELSE 200
  IN  /\ Writes < MaxWrites
      /\ IF status = 200
           THEN LET old == comments[commentId]
                    new == [old EXCEPT !.status = "deleted"]
                IN  /\ comments' = [comments EXCEPT ![commentId] = new]
                    /\ cards' = IncrementCardVersionOnCommentDelete(cards, old, new)
                    /\ qualifying' = Bump(qualifying, old.card_id)
           ELSE UNCHANGED <<comments, cards, qualifying>>
      /\ last' = Call("DELETE /comments/:id", status, [commentId |-> commentId])
      /\ cards_fts' = CardsFtsAfterUpdates(cards_fts, cards, cards', Len(cards))
      /\ UNCHANGED <<tui, projects, card_references, refSeq, cards_audit,
                     now, req, applied, wins>>

\* POST /cards/:id/references
CreateReferenceCall(sourceId, body, ghost) ==
  LET row == [id |-> refSeq + 1, source_card_id |-> sourceId,
              target_card_id |-> body.target_card_id,
              reference_type |-> body.reference_type]
      status ==
        IF sourceId \notin DOMAIN cards \/ body.target_card_id \notin DOMAIN cards
          THEN 404
        ELSE IF ~ReferenceNotSelf(row) THEN 400
        ELSE IF ~ReferenceTypeOk(row) THEN 400
        ELSE IF ~ReferenceUnique(row) THEN 400
        ELSE 201
      error ==
        IF status = 404 THEN "Card not found"
        ELSE IF ~ReferenceNotSelf(row) THEN "self"
        ELSE IF ~ReferenceTypeOk(row) THEN "Invalid reference type"
        ELSE IF ~ReferenceUnique(row) THEN "already exists"
        ELSE ""
  IN  /\ Writes < MaxWrites
      /\ IF status = 201
           THEN /\ card_references' = card_references \cup {row}
                /\ refSeq' = refSeq + 1
                /\ cards' = IncrementCardVersionOnReferenceAdd(cards, row)
                /\ qualifying' = Bump(qualifying, sourceId)
           ELSE UNCHANGED <<card_references, refSeq, cards, qualifying>>
      /\ last' = Call("POST /cards/:id/references", status,
                      [cardId |-> sourceId, body |-> body, error |-> error]
                        @@ ghost)
      /\ cards_fts' = CardsFtsAfterUpdates(cards_fts, cards, cards', Len(cards))
      /\ UNCHANGED <<tui, projects, comments, cards_audit, now, applied, wins>>

\* POST /cards/:id/references, no other request in flight
CreateReference(sourceId, body) ==
  CreateReferenceCall(sourceId, body, <<>>) /\ UNCHANGED req

\* DELETE /cards/:id/references/:refId
DeleteReferenceCall(cardId, refId) ==
  LET found == {r \in card_references : r.id = refId /\ r.source_card_id = cardId}
      status == IF found = {} THEN 404 ELSE 200
  IN  /\ Writes < MaxWrites
      /\ IF status = 200
           THEN LET old == CHOOSE r \in found : TRUE
                IN  /\ card_references' = card_references \ {old}
                    /\ cards' = IncrementCardVersionOnReferenceDelete(cards, old)
                    /\ qualifying' = Bump(qualifying, old.source_card_id)
           ELSE UNCHANGED <<card_references, cards, qualifying>>
      /\ last' = Call("DELETE /cards/:id/references/:refId", status,
                      [cardId |-> cardId, refId |-> refId])
      /\ cards_fts' = CardsFtsAfterUpdates(cards_fts, cards, cards', Len(cards))
      /\ UNCHANGED <<tui, projects, comments, refSeq, cards_audit, now, applied, wins>>

\* DELETE /cards/:id/references/:refId, no other request in flight
DeleteReference(cardId, refId) ==
  DeleteReferenceCall(cardId, refId) /\ UNCHANGED req

\* Reference requests in flight together: a request has arrived and waits
\* for its handler, which then runs to completion against the store as it
\* is at that moment.
ReferenceArrives(request) ==
  /\ BagCardinality(req) < MaxHandlers
  /\ Writes < MaxWrites
  /\ req' = req (+) SetToBag({request})
  /\ UNCHANGED <<tui, cards, cards_audit, cards_fts, now, last, applied, wins,
                 qualifying, otherTables>>

\* the request r is served.  Recorded with the answer: whether the call
\* served just before was the same call, answered 201 while r was waiting.
ReferenceServed(r) ==
  /\ BagIn(r, req)
  /\ req' = req (-) SetToBag({r})
  /\ IF r.op = "create"
       THEN CreateReferenceCall(r.cardId, r.body,
              [raced |-> /\ last.status = 201
                         /\ last.op = "POST /cards/:id/references"
                         /\ last.cardId = r.cardId /\ last.body = r.body
                         /\ BagIn(r, last.waiting),
               waiting |-> req (-) SetToBag({r})])
       ELSE DeleteReferenceCall(r.cardId, r.refId)

\* GET /cards ---------------------------------------------------------------

\* if (id), if (status), ...: the parameter is in the query and not empty;
\* the numbers of the model stand for the digits sent, parseInt applied
Given(query, k) ==
  Has(query, k) /\ (k \in {"status", "search"} => query[k] # "")

\* conditions[]: the columns the handler compares; it reads no parameter
\* type
Conditions(query) ==
  {k \in {"id", "status", "priority", "project_id"} : Given(query, k)}

\* the set S arranged as a sequence, in every way
Arrangements(S) ==
  {s \in [1..Cardinality(S) -> S] : \A i, j \in DOMAIN s : i # j => s[i] # s[j]}

\* ORDER BY, before the pairs <<a, b>> of rows of which the ordering puts
\* a strictly first: a row is never returned after one that the ordering
\* puts strictly behind it; rows the ordering does not tell apart come in
\* an order SQLite does not define
OrderBy(S, before) ==
  {s \in Arrangements(S) :
     \A i, j \in DOMAIN s : i < j => <<s[j], s[i]>> \notin before}

\* ORDER BY priority DESC, created_at DESC
PriorityThenCreated(a, b) ==
  \/ NumGreater(cards[a].priority, cards[b].priority)
  \/ cards[a].priority = cards[b].priority
       /\ cards[a].created_at > cards[b].created_at

\* SELECT * FROM cards WHERE <conditions> ORDER BY priority DESC,
\* created_at DESC: the ids of the rows, in the orders it may return them
FilteredCards(query) ==
  LET rows == {i \in DOMAIN cards :
                 \A k \in Conditions(query) : cards[i][k] = query[k]}
  IN  OrderBy(rows, {p \in rows \X rows : PriorityThenCreated(p[1], p[2])})

\* cards_fts MATCH ?: the rows that hold every token of the search string
Match(fts, search) ==
  {r \in {p.rowid : p \in fts} :
     \A n \in DOMAIN Tokens(search) :
       \E p \in fts : p.rowid = r /\ p.term = Tokens(search)[n]}

Bm25WeightsEqual == [title |-> 1, description |-> 1]

\* bm25(cards_fts, 10.0, 1.0)
Bm25Weights == [title |-> 10, description |-> 1]

\* occurrences of the term in the row, each weighted by its column
WeightedFrequency(fts, rowid, term) ==
  Bm25Weights.title
      * Cardinality({p \in fts : p.rowid = rowid /\ p.term = term
                                  /\ p.column = "title"})
    + Bm25Weights.description
      * Cardinality({p \in fts : p.rowid = rowid /\ p.term = term
                                  /\ p.column = "description"})

DocSize(fts, rowid) == Cardinality({p \in fts : p.rowid = rowid})

\* ORDER BY bm25(...) for a search string of one token: row a is ranked
\* strictly before row b.  The score of a row is idf * f * (k1 + 1) /
\* (f + k1 * (1 - b + b * size / avg)), k1 = 1.2, b = 0.75, f the weighted
\* frequency, avg = total / rows, idf > 0 the same for both rows; so a
\* scores higher exactly when f_a * (total + 3 * rows * size_b) exceeds
\* f_b * (total + 3 * rows * size_a).
Bm25Before(fts, search, a, b) ==
  LET term == Tokens(search)[1]
      rows == Cardinality({p.rowid : p \in fts})
      total == Cardinality(fts)
  IN  WeightedFrequency(fts, a, term) * (total + 3 * rows * DocSize(fts, b))
        > WeightedFrequency(fts, b, term) * (total + 3 * rows * DocSize(fts, a))

\* SELECT c.* FROM cards c JOIN cards_fts fts ON c.id = fts.rowid
\* WHERE cards_fts MATCH ? ORDER BY bm25(cards_fts, 10.0, 1.0)
SearchCards(search) ==
  LET rows == Match(cards_fts, search) \cap DOMAIN cards
  IN  OrderBy(rows, {p \in rows \X rows :
                       Bm25Before(cards_fts, search, p[1], p[2])})

GetCardsFilteringSearch(query) ==
  IF Given(query, "search")
    THEN {SelectSeq(s, LAMBDA i :
                      \A k \in Conditions(query) : cards[i][k] = query[k]) :
            s \in SearchCards(query.search)}
    ELSE FilteredCards(query)

\* the sequences of card ids GET /cards may answer
GetCards(query) ==
  IF Given(query, "search") THEN SearchCards(query.search)
  ELSE FilteredCards(query)

ListCards(query) ==
  /\ \E result \in GetCards(query) :
       last' = Call("GET /cards", 200, [query |-> query, result |-> result])
  /\ UNCHANGED <<tui, projects, cards, comments, card_references, refSeq,
                 cards_audit, cards_fts, now, req, applied, wins, qualifying>>

\* a second passes, between the creation of a card and that of the next
Tick ==
  /\ cards # <<>> /\ Len(cards) < MaxCards
  /\ now = cards[Len(cards)].created_at
  /\ now' = now + 1
  /\ UNCHANGED <<tui, projects, cards, comments, card_references, refSeq,
                 cards_audit, cards_fts, req, last, applied, wins, qualifying>>

-----------------------------------------------------------------------------
(* The terminal UI, src/src/tui/index.ts: one FivetwoTUI object, its three *)
(* screen elements and the card loads it has started.  A key press runs    *)
(* its handler up to the await of the fetch; the rest of the handler runs  *)
(* when the response arrives, and nothing orders two responses.            *)

\* the fields of a FivetwoTUI after its constructor; started, loading and
\* failed record where init() and the loads are
FivetwoTUI ==
  [projects |-> <<>>, cards |-> <<>>, currentProjectIndex |-> 0,
   headerText |-> "", cardsList |-> <<>>,
   statusBar |-> [cards |-> 0, project |-> 0, of |-> 0],
   started |-> FALSE, loading |-> EmptyBag, failed |-> FALSE]

\* GET /projects, ORDER BY created_at DESC: the ids of the rows; the rows of
\* one second come in an order SQLite does not define
getProjects == Arrangements(DOMAIN projects)

\* getCards(projectId): GET /cards?project_id=<id>
getCards(projectId) == GetCards([project_id |-> projectId])

statusOrder ==
  [in_progress |-> 0, backlog |-> 1, review |-> 2, blocked |-> 3, done |-> 4,
   wont_do |-> 5, invalid |-> 6]

\* the comparison of sortCards: by status, then the higher priority, then
\* the higher id
sortBefore(a, b) ==
  LET sa == IF cards[a].status \in DOMAIN statusOrder
              THEN statusOrder[cards[a].status] ELSE 99
      sb == IF cards[b].status \in DOMAIN statusOrder
              THEN statusOrder[cards[b].status] ELSE 99
  IN  \/ sa < sb
      \/ sa = sb /\ NumGreater(cards[a].priority, cards[b].priority)
      \/ sa = sb /\ cards[a].priority = cards[b].priority /\ a > b

sortCards(fetched) ==
  LET rows == {fetched[i] : i \in DOMAIN fetched}
  IN  CHOOSE s \in OrderBy(rows, {p \in rows \X rows : sortBefore(p[1], p[2])}) :
        TRUE

\* projects[currentProjectIndex]?.name || "No project"
projectName(ps, index) ==
  IF index + 1 \in DOMAIN ps /\ Has(projects[ps[index + 1]], "name")
    THEN projects[ps[index + 1]].name ELSE "No project"

\* getCardOptions and updateCardsList: one option per card held, or the
\* one option "No cards found"
getCardOptions(held) ==
  IF held = <<>>
    THEN <<[card |-> 0, status |-> "", priority |-> 0,
            title |-> "No cards found", description |-> ""]>>
    ELSE [i \in DOMAIN held |->
            [card |-> held[i], status |-> cards[held[i]].status,
             priority |-> cards[held[i]].priority,
             title |-> cards[held[i]].title,
             description |-> IF cards[held[i]].description = Null THEN ""
                             ELSE cards[held[i]].description]]

\* setupUI, and updateCardsList, updateHeader, updateStatusBar: the three
\* elements are written from the fields as they are at that moment
Drawn(t) ==
  [t EXCEPT !.headerText = projectName(t.projects, t.currentProjectIndex),
            !.cardsList = getCardOptions(t.cards),
            !.statusBar = [cards |-> Len(t.cards),
                           project |-> t.currentProjectIndex + 1,
                           of |-> Len(t.projects)]]

tuiFrame ==
  UNCHANGED <<projects, cards, comments, card_references, refSeq, cards_audit,
              cards_fts, now, req, last, applied, wins, qualifying>>

\* init(): loadProjects, loadCards when there is a project, setupUI
init(ok) ==
  /\ ~tui.started
  /\ \E ps \in IF ok THEN getProjects ELSE {<<>>} :
       \E fetched \in IF ps = <<>> THEN {<<>>} ELSE getCards(ps[1]) :
         tui' = Drawn([tui EXCEPT !.projects = ps,
                                  !.cards = sortCards(fetched),
                                  !.started = TRUE])
  /\ tuiFrame

\* loadCards up to its await: the project is read and the request sent
loadCardsBegins(t) ==
  [t EXCEPT !.loading =
     @ (+) SetToBag({[project |-> t.projects[t.currentProjectIndex + 1]]})]

\* key left
prevProject ==
  /\ tui.started /\ tui.projects # <<>>
  /\ BagCardinality(tui.loading) < MaxHandlers
  /\ tui' = loadCardsBegins(
       [tui EXCEPT !.currentProjectIndex =
          (@ - 1 + Len(tui.projects)) % Len(tui.projects)])
  /\ tuiFrame

\* key right
nextProject ==
  /\ tui.started /\ tui.projects # <<>>
  /\ BagCardinality(tui.loading) < MaxHandlers
  /\ tui' = loadCardsBegins(
       [tui EXCEPT !.currentProjectIndex = (@ + 1) % Len(tui.projects)])
  /\ tuiFrame

\* the response of a load arrives: loadCards assigns this.cards (the empty
\* list when the fetch threw), and the key handler that awaited it goes on
\* to updateCardsList, updateHeader and updateStatusBar
loadCardsReturns(load, ok) ==
  /\ BagIn(load, tui.loading)
  /\ \E fetched \in getCards(load.project) :
       tui' = Drawn([tui EXCEPT !.cards = IF ok THEN sortCards(fetched) ELSE <<>>,
                                !.failed = ~ok,
                                !.loading = @ (-) SetToBag({load})])
  /\ tuiFrame

-----------------------------------------------------------------------------
(* The whole service, from an empty store.  Every handler but PATCH runs  *)
(* to completion, so one PATCH in flight meets every interleaving with the*)
(* other handlers; several PATCH requests in flight are SpecUpdate's.     *)
(* PATCH is called with the token of a registered user (index.ts signs    *)
(* tokens for rows of users only, and no handler deletes a user).         *)

ProjectBodies ==
  {[host |-> "h", owner |-> "o", repository |-> "r1"],
   [host |-> "h", owner |-> "o"]}

CardBodies ==
  {[project_id |-> 1, title |-> "t1"], [project_id |-> 2, title |-> "t1"],
   [project_id |-> 1]}

CommentBodies == {<<>>, [message |-> ""], [message |-> "m1"]}

\* the ids a request names: each stored card's and one that no card has
CardIds == 1..(Len(cards) + 1)

ReferenceBodies ==
  {[target_card_id |-> t, reference_type |-> ty] :
     t \in CardIds, ty \in {"blocks", "blocked_by", "not_a_type"}}

\* the bodies PATCH receives here: no column, or one column and a value
\* the handler accepts
AcceptedBodies ==
  Opt("title", {"t2"}) \cup Opt("description", {Null, "d1"})
    \cup Opt("status", {"done"}) \cup Opt("priority", {75})

Init ==
  /\ projects = <<>>
  /\ tui = FivetwoTUI
  /\ cards = <<>>
  /\ cards_fts = {}
  /\ now = 0
  /\ comments = <<>>
  /\ card_references = {}
  /\ refSeq = 0
  /\ cards_audit = <<>>
  /\ req = EmptyBag
  /\ last = NoCall
  /\ applied = <<>>
  /\ wins = <<>>
  /\ qualifying = <<>>

Next ==
  \/ \E body \in ProjectBodies : CreateProject(body)
  \/ \E userId \in Callers, body \in CardBodies : CreateCard(userId, body)
  \/ \E cardId \in CardIds, userId \in users :
       req = EmptyBag /\ PatchBegin(cardId, userId)
  \/ \E r \in BagToSet(req), body \in AcceptedBodies : PatchProcess(r, body)
  \/ \E userId \in Callers, cardId \in CardIds, body \in CommentBodies :
       AddComment(userId, cardId, body)
  \/ \E commentId \in 1..(Len(comments) + 1) : DeleteComment(commentId)
  \/ \E sourceId \in CardIds, body \in ReferenceBodies :
       CreateReference(sourceId, body)
  \/ \E cardId \in CardIds, refId \in 1..(refSeq + 1) :
       DeleteReference(cardId, refId)

Spec == Init /\ [][Next]_vars

\* C3: a card's version is its initial version, 1, plus the number of
\* qualifying mutations applied to it (a PATCH that changed the value of
\* title, description, status or priority; a comment added; a comment soft
\* deleted; a reference added or deleted with the card as source), each
\* counted once; a PATCH that changes no value does not count.
C3_VersionCountsQualifyingMutations ==
  \A c \in DOMAIN cards : cards[c].version = 1 + qualifying[c]

\* a card with a comment added and then soft deleted on which PATCH has
\* committed an UPDATE that changed no value: version 3
C3_Witness ==
  \E c \in DOMAIN cards :
    /\ \E i \in DOMAIN comments :
         comments[i].card_id = c /\ comments[i].status = "deleted"
    /\ applied[c] = 1
    /\ qualifying[c] = 2
    /\ cards[c].version = 3

-----------------------------------------------------------------------------
(* The update protocol on a store that holds one card, every caller a    *)
(* registered user, up to MaxHandlers requests in flight together        *)

SeedCards ==
  {<<InsertCard(1, 1, "t1", d, "backlog", 50, 1)>> : d \in {"d1"}}

SeedProject == [host |-> "h", owner |-> "o", repository |-> "r1"]

InitUpdate ==
  /\ projects = <<SeedProject>>
  /\ tui = FivetwoTUI
  /\ now = 0
  /\ cards \in SeedCards
  /\ cards_fts = cards_fts_insert({}, cards[1])
  /\ comments = <<>>
  /\ card_references = {}
  /\ refSeq = 0
  /\ qualifying = <<0>>
  /\ cards_audit = <<>>
  /\ req = EmptyBag
  /\ last = NoCall
  /\ applied = <<0>>
  /\ wins = <<>>

NextUpdate ==
  \/ \E cardId \in CardIds, userId \in users : PatchBegin(cardId, userId)
  \/ \E r \in BagToSet(req) :
       \E body \in PatchBodies(r.existingCard) : PatchProcess(r, body)
  \/ \E r \in BagToSet(req), body \in ColumnBodies : PatchCrash(r, body)

SpecUpdate == InitUpdate /\ [][NextUpdate]_vars

-----------------------------------------------------------------------------
(* Listing and searching: cards are created and updated in one project    *)
(* while the clock advances, and GET /cards is asked between the writes.  *)

ListCardBodies ==
  {[project_id |-> 1, title |-> t] : t \in {"crash", "login"}}
    \cup {[project_id |-> 1, title |-> "crash", description |-> "login"],
          [project_id |-> 1, title |-> "login", description |-> "crash"],
          [project_id |-> 1, title |-> "login", priority |-> 75]}

ListPatchBodies == {[title |-> "fix crash"], [description |-> Null]}

Searches == {"crash", "login"}

Filters ==
  {<<>>, [id |-> 1], [priority |-> 75], [project_id |-> 1, status |-> "done"],
   [type |-> "bug"]}

\* the queries sent: each filter alone, each search string alone and each
\* search string with a filter that not every card passes
Queries ==
  Filters \cup {[search |-> s] : s \in Searches}
    \cup {[search |-> "login", priority |-> 75]}

\* the writes between which the store is listed
ListBudget == Writes <= MaxCards

InitList ==
  /\ projects = <<SeedProject>>
  /\ tui = FivetwoTUI
  /\ cards = <<>>
  /\ cards_fts = {}
  /\ now = 0
  /\ comments = <<>>
  /\ card_references = {}
  /\ refSeq = 0
  /\ cards_audit = <<>>
  /\ req = EmptyBag
  /\ last = NoCall
  /\ applied = <<>>
  /\ wins = <<>>
  /\ qualifying = <<>>

NextList ==
  \/ \E userId \in users, body \in ListCardBodies :
       ListBudget /\ CreateCard(userId, body)
  \/ \E cardId \in DOMAIN cards, userId \in users :
       ListBudget /\ req = EmptyBag /\ PatchBegin(cardId, userId)
  \/ \E r \in BagToSet(req), body \in ListPatchBodies : PatchProcess(r, body)
  \/ Tick
  \/ \E query \in Queries : ListCards(query)

SpecList == InitList /\ [][NextList]_vars

-----------------------------------------------------------------------------
(* Cards created and updated by registered users, one request at a time,  *)
(* with bodies the handlers accept and bodies they are to refuse          *)

\* the bodies of POST /cards: project and title alone, an unknown project,
\* a key missing, each optional column with a good and a bad value
CreateBodies ==
  {[project_id |-> 1, title |-> "t1"], [project_id |-> 2, title |-> "t1"],
   [project_id |-> 1], [title |-> "t1"]}
    \cup {[project_id |-> 1, title |-> "t1", status |-> st] :
            st \in {"done", "wont_do", "not_a_status", ""}}
    \cup {[project_id |-> 1, title |-> "t1", priority |-> pr] :
            pr \in {0, 101, Half(50)}}
    \cup {[project_id |-> 1, title |-> "t1", description |-> "d1",
           status |-> "invalid"]}

\* the bodies of PATCH /cards/:id: each column alone, the status one that
\* is not terminal
UpdateBodies ==
  {[title |-> "t2"], [description |-> "d1"], [status |-> "backlog"],
   [priority |-> 75], [priority |-> Half(50)]}

\* the writes explored
CardBudget == Writes <= MaxCards + 1

InitCard ==
  /\ projects = <<SeedProject>>
  /\ tui = FivetwoTUI
  /\ cards = <<>>
  /\ cards_fts = {}
  /\ now = 0
  /\ comments = <<>>
  /\ card_references = {}
  /\ refSeq = 0
  /\ cards_audit = <<>>
  /\ req = EmptyBag
  /\ last = NoCall
  /\ applied = <<>>
  /\ wins = <<>>
  /\ qualifying = <<>>

NextCard ==
  \/ \E userId \in users, body \in CreateBodies :
       CardBudget /\ CreateCard(userId, body)
  \/ \E cardId \in DOMAIN cards, userId \in users :
       CardBudget /\ req = EmptyBag /\ PatchBegin(cardId, userId)
  \/ \E r \in BagToSet(req), body \in UpdateBodies : PatchProcess(r, body)

SpecCard == InitCard /\ [][NextCard]_vars

-----------------------------------------------------------------------------
(* Projects registered one after another, on a store without projects *)

\* the bodies of POST /projects: repositories that differ in one part of
\* their identity, and bodies that lack a part
RepositoryBodies ==
  {[host |-> h, owner |-> o, repository |-> r] :
     h \in {"h", "h2"}, o \in {"o"}, r \in {"r1", "r2"}}
    \cup {[host |-> "h", owner |-> "o"], [host |-> "h", owner |-> "o",
                                         repository |-> ""]}

NextProject == \E body \in RepositoryBodies : CreateProject(body)

SpecProject == Init /\ [][NextProject]_vars

-----------------------------------------------------------------------------
(* Reference requests in flight together, on a store that holds two cards *)

\* the calls sent: edges between the two cards, one of them of another
\* type, the inverse edge, a self edge, an edge to a card that is not
\* stored, an edge of a type outside the vocabulary; and the removal of
\* any edge created so far, by its source's or by the other card's path
ReferenceRequests ==
  {[op |-> "create", cardId |-> 1,
    body |-> [target_card_id |-> t, reference_type |-> ty]] :
     t \in {2}, ty \in {"blocks", "duplicates", "not_a_type"}}
    \cup {[op |-> "create", cardId |-> c,
           body |-> [target_card_id |-> t, reference_type |-> "blocks"]] :
            c \in {1, 2}, t \in {1, 3}}
    \cup {[op |-> "delete", cardId |-> c, refId |-> i] :
            c \in {1, 2}, i \in 1..refSeq}

InitReference ==
  /\ projects = <<SeedProject>>
  /\ tui = FivetwoTUI
  /\ now = 0
  /\ cards = <<InsertCard(1, 1, "t1", Null, "backlog", 50, 1),
               InsertCard(2, 1, "t1", Null, "backlog", 50, 1)>>
  /\ cards_fts = cards_fts_insert(cards_fts_insert({}, cards[1]), cards[2])
  /\ comments = <<>>
  /\ card_references = {}
  /\ refSeq = 0
  /\ cards_audit = <<>>
  /\ req = EmptyBag
  /\ last = NoCall
  /\ applied = <<0, 0>>
  /\ wins = <<>>
  /\ qualifying = <<0, 0>>

NextReference ==
  \/ \E request \in ReferenceRequests : ReferenceArrives(request)
  \/ \E r \in BagToSet(req) : ReferenceServed(r)

SpecReference == InitReference /\ [][NextReference]_vars

-----------------------------------------------------------------------------
(* Titles given to cards: present, empty, null or missing, one request at *)
(* a time                                                                 *)

TitleCreateBodies ==
  {[project_id |-> 1, title |-> "t1"], [project_id |-> 1, title |-> ""],
   [project_id |-> 1], [project_id |-> 1, title |-> "t2", status |-> "done"]}

TitleUpdateBodies ==
  {[title |-> ti] : ti \in {"t2", "", Null}} \cup {[description |-> "d1"]}

NextTitle ==
  \/ \E userId \in users, body \in TitleCreateBodies :
       CardBudget /\ CreateCard(userId, body)
  \/ \E cardId \in DOMAIN cards, userId \in users :
       CardBudget /\ req = EmptyBag /\ PatchBegin(cardId, userId)
  \/ \E r \in BagToSet(req), body \in TitleUpdateBodies : PatchProcess(r, body)

SpecTitle == InitCard /\ [][NextTitle]_vars

-----------------------------------------------------------------------------
(* The side panel of the web page: the reference rows of the card shown *)

\* table[key] || key
Lookup(table, key) == IF key \in DOMAIN table THEN table[key] ELSE key

\* a row of references.outgoing: the type's label and the target
OutgoingRow(ref) ==
  [label |-> Lookup(REFERENCE_TYPE_LABELS, ref.reference_type),
   card |-> ref.target_card_id]

\* a row of references.incoming: the label of the inverse type and the
\* source
IncomingRow(ref) ==
  LET inverseType == Lookup(INVERSE_REFERENCE_TYPE, ref.reference_type)
  IN  [label |-> Lookup(REFERENCE_TYPE_LABELS, inverseType),
       card |-> ref.source_card_id]

\* SidePanel renders the table of references it was given
SidePanel(references) ==
  /\ last' = [status |-> 200, op |-> "SidePanel", references |-> references,
              rows |-> [n \in DOMAIN references.outgoing |->
                          OutgoingRow(references.outgoing[n])]
                         \o [n \in DOMAIN references.incoming |->
                               IncomingRow(references.incoming[n])]]
  /\ UNCHANGED <<tui, projects, cards, comments, card_references, refSeq,
                 cards_audit, cards_fts, now, req, applied, wins, qualifying>>

\* the references given to the panel of card 1: no edge or one in each
\* direction, of a type of the vocabulary or of another one
PanelEdges(source, target) ==
  {<<>>} \cup
    {<<[id |-> 1, source_card_id |-> source, target_card_id |-> target,
        reference_type |-> ty]>> : ty \in referenceTypes \cup {"not_a_type"}}

PanelReferences ==
  {[outgoing |-> out, incoming |-> in] :
     out \in PanelEdges(1, 2), in \in PanelEdges(2, 1)}

NextPanel == \E references \in PanelReferences : SidePanel(references)

SpecPanel == Init /\ [][NextPanel]_vars

-----------------------------------------------------------------------------
(* Calls by a token whose sub has a users row and by one whose sub has    *)
(* none, one request at a time, on a store that holds one card            *)

\* the bodies of PATCH /cards/:id sent here, each accepted by the handler
CallerPatchBodies == {[title |-> "t2"], [status |-> "done"]}

NextCallers ==
  \/ \E userId \in Callers, body \in CardBodies : CreateCard(userId, body)
  \/ \E cardId \in CardIds, userId \in Callers :
       req = EmptyBag /\ PatchBegin(cardId, userId)
  \/ \E r \in BagToSet(req), body \in CallerPatchBodies : PatchProcess(r, body)
  \/ \E userId \in Callers, cardId \in CardIds, body \in CommentBodies :
       AddComment(userId, cardId, body)

SpecCallers == InitUpdate /\ [][NextCallers]_vars

-----------------------------------------------------------------------------
(* The terminal UI on a store of three projects: two cards in the first,  *)
(* one in the second, none in the third.  The keys are pressed while loads*)
(* are in flight.                                                         *)

InitTui ==
  /\ projects = <<SeedProject, [SeedProject EXCEPT !.repository = "r2"],
                  [SeedProject EXCEPT !.repository = "r3"]>>
  /\ tui = FivetwoTUI
  /\ now = 0
  /\ cards = <<InsertCard(1, 1, "t1", Null, "backlog", 50, 1),
               InsertCard(2, 1, "t2", "d1", "in_progress", 50, 1),
               InsertCard(3, 2, "t1", Null, "backlog", 50, 1)>>
  /\ cards_fts = cards_fts_insert(
                   cards_fts_insert(cards_fts_insert({}, cards[1]), cards[2]),
                   cards[3])
  /\ comments = <<>>
  /\ card_references = {}
  /\ refSeq = 0
  /\ cards_audit = <<>>
  /\ req = EmptyBag
  /\ last = NoCall
  /\ applied = <<0, 0, 0>>
  /\ wins = <<>>
  /\ qualifying = <<0, 0, 0>>

NextTui ==
  \/ \E ok \in BOOLEAN : init(ok)
  \/ prevProject
  \/ nextProject
  \/ \E load \in BagToSet(tui.loading), ok \in BOOLEAN : loadCardsReturns(load, ok)

SpecTui == InitTui /\ [][NextTui]_vars

-----------------------------------------------------------------------------
(* Claims about UpdateCard, stated on the call that completed last *)

\* the last call was a PATCH whose body was processed (the card exists)
Processed == last.status \notin {0, 404} /\ last.op = "PATCH"

PreCard == last.pre[last.cardId]     \* the stored row when the body was processed
PostCard == cards[last.cardId]       \* the stored row when the call returned

Untouched == cards = last.pre /\ cards_audit = last.auditPre

\* a patch the specification accepts: a known status, a priority in range,
\* at least one column
PatchValid(body) ==
  /\ Has(body, "status") => body.status \in validStatuses
  /\ Has(body, "priority") => body.priority \in 0..100
  /\ DOMAIN body \cap PatchColumns # {}

AuditRowsOf(c) == {i \in 1..Len(cards_audit) : cards_audit[i].card_id = c}

\* C1: a call that supplies a callerVersion differing from the stored version
\* fails with VersionConflict (409) and changes no card field, version or
\* audit row; one that supplies the stored version and an otherwise valid
\* patch succeeds.
C1_StaleVersionRejected ==
  (Processed /\ Has(last.body, "version") /\ PatchValid(last.body)) =>
    /\ last.body.version # PreCard.version => last.status = 409 /\ Untouched
    /\ last.body.version = PreCard.version => last.status = 200

\* C2: of the calls on one card that supplied the same version, had read the
\* card at that version and sent a value differing from what they had read,
\* at most one succeeds.
C2_AtMostOneWinner ==
  \A i, j \in DOMAIN wins : i # j => wins[i] # wins[j]

\* C4: in every state each card has exactly one audit row per UPDATE that
\* UpdateCard has committed on it: no mutation without its audit row, no
\* audit row without its mutation.
C4_UpdateAndAuditTogether ==
  \A c \in DOMAIN cards : Cardinality(AuditRowsOf(c)) = applied[c]

\* C5: the audit row of a successful UpdateCard holds, as old values, the
\* stored values just before the update and, as new values, the stored
\* values just after it; an omitted column has old = new; a description
\* set to null is recorded as null.
C5_AuditRecordsBeforeAndAfter ==
  (Processed /\ last.status = 200) =>
    LET row == cards_audit[Len(cards_audit)] IN
    /\ row.old_title = PreCard.title /\ row.new_title = PostCard.title
    /\ row.old_description = PreCard.description
    /\ row.new_description = PostCard.description
    /\ row.old_status = PreCard.status /\ row.new_status = PostCard.status
    /\ row.old_priority = PreCard.priority /\ row.new_priority = PostCard.priority
    /\ ~Has(last.body, "title") => row.old_title = row.new_title
    /\ ~Has(last.body, "description") => row.old_description = row.new_description
    /\ ~Has(last.body, "status") => row.old_status = row.new_status
    /\ ~Has(last.body, "priority") => row.old_priority = row.new_priority
    /\ (Has(last.body, "description") /\ last.body.description = Null)
         => row.new_description = Null

\* C6: a call whose callerVersion is not the stored version ends in
\* VersionConflict (409) and the response carries the stored version as
\* current_version.
C6_ConflictCarriesCurrentVersion ==
  (Processed /\ Has(last.body, "version") /\ PatchValid(last.body)
     /\ last.body.version # PreCard.version) =>
    /\ last.status = 409
    /\ last.current_version = PreCard.version

\* C7: a successful UpdateCard appends exactly one audit row, for its card,
\* also when the patch changes no value; a call that ends in NotFound,
\* InvalidArgument or VersionConflict appends none.
C7_OneAuditRowPerSuccess ==
  /\ (last.status = 200 /\ last.op = "PATCH") =>
       /\ Len(cards_audit) = Len(last.auditPre) + 1
       /\ SubSeq(cards_audit, 1, Len(last.auditPre)) = last.auditPre
       /\ cards_audit[Len(cards_audit)].card_id = last.cardId
  /\ (last.status \in {400, 404, 409} /\ last.op = "PATCH") =>
       cards_audit = last.auditPre

C7_Witness ==
  /\ Processed /\ last.status = 200
  /\ PostCard = PreCard
  /\ Len(cards_audit) = Len(last.auditPre) + 1

\* C8: a successful UpdateCard stores the supplied value of every column
\* present in the patch (null clears the description), keeps the stored
\* value of every omitted column, and never changes id, project, creator
\* or type.
C8_ExactlyThePatchedColumns ==
  (Processed /\ last.status = 200) =>
    /\ \A f \in PatchColumns :
         PostCard[f] = IF Has(last.body, f) THEN last.body[f] ELSE PreCard[f]
    /\ PostCard.id = PreCard.id
    /\ PostCard.project_id = PreCard.project_id
    /\ PostCard.created_by = PreCard.created_by
    /\ PostCard.type = PreCard.type

C8_Witness ==
  /\ Processed /\ last.status = 200
  /\ Has(last.body, "description") /\ last.body.description = Null
  /\ PreCard.description # Null
  /\ PostCard.description = Null
  /\ PostCard.title = PreCard.title

\* C9: a call that supplies no callerVersion never ends in VersionConflict;
\* with a valid patch it is applied whatever the stored version is, so the
\* later of two such calls overwrites what the earlier one wrote.
C9_NoVersionLastWriterWins ==
  (Processed /\ ~Has(last.body, "version")) =>
    /\ last.status # 409
    /\ PatchValid(last.body) =>
         /\ last.status = 200
         /\ \A f \in DOMAIN last.body \cap PatchColumns : PostCard[f] = last.body[f]

\* the card had moved on to version 2 by an earlier call that cleared the
\* description; the later call, sent without a version, overwrote it
C9_Witness ==
  /\ Processed /\ last.status = 200 /\ ~Has(last.body, "version")
  /\ PreCard.version = 2 /\ PreCard.description = Null
  /\ Len(last.auditPre) = 1 /\ last.auditPre[1].old_description = "d1"
  /\ Has(last.body, "description") /\ PostCard.description = "d1"

\* C10: UpdateCard on an unknown id ends in NotFound (404); a status outside
\* the enum, a priority outside 0..100 or a patch without any column ends
\* in InvalidArgument (400); in each case nothing is written.
C10_InvalidPatchRejected ==
  /\ (last.status # 0 /\ last.op = "PATCH"
        /\ last.cardId \notin DOMAIN last.pre) =>
       last.status = 404 /\ Untouched
  /\ (Processed /\ ~PatchValid(last.body)) =>
       last.status = 400 /\ Untouched

-----------------------------------------------------------------------------
(* Claims about every operation, stated on the call that completed last *)

\* the error of the specification's taxonomy that the response stands for:
\* 404 is NotFound, 409 VersionConflict, 400 with an "already exists" text
\* AlreadyExists, any other 400 InvalidArgument; an exception that no
\* handler catches (500) is a raw store error
DomainError ==
  IF last.status = 404 THEN "NotFound"
  ELSE IF last.status = 409 THEN "VersionConflict"
  ELSE IF last.status = 400
    THEN IF "error" \in DOMAIN last
              /\ last.error \in {"Project already exists", "already exists"}
           THEN "AlreadyExists" ELSE "InvalidArgument"
  ELSE IF last.status = 500 THEN "StoreError"
  ELSE "None"

\* no table differs from what it was when the last call was processed
NothingWritten ==
  /\ cards = last.pre
  /\ cards_audit = last.auditPre
  /\ otherTables = last.preOther

\* C11: a call of any operation that ends in NotFound, InvalidArgument,
\* AlreadyExists or VersionConflict leaves every table (projects, cards with
\* their versions, comments, references, audit rows) exactly as it was.
C11_FailedCallWritesNothing ==
  DomainError \in {"NotFound", "InvalidArgument", "AlreadyExists",
                   "VersionConflict"}
    => NothingWritten

\* a duplicate project was refused and the one stored project is still alone
C11_Witness ==
  /\ DomainError = "AlreadyExists" /\ last.op = "POST /projects"
  /\ Len(projects) = 1 /\ projects[1] = last.body

\* C12: no call ends in a raw store constraint error; whatever would break
\* a UNIQUE, CHECK, NOT NULL or foreign key constraint ends in NotFound,
\* InvalidArgument, AlreadyExists or VersionConflict.
C12_NoRawStoreError == DomainError # "StoreError"

-----------------------------------------------------------------------------
(* Claims about the reference graph *)

\* the last call was a POST /cards/:id/references
CreatedReference == last.status # 0 /\ last.op = "POST /cards/:id/references"

\* the last call was a DELETE /cards/:id/references/:refId
DeletedReference ==
  last.status # 0 /\ last.op = "DELETE /cards/:id/references/:refId"

PreRefs == last.preOther[3]    \* card_references when the call was processed

\* the stored edges from s to t of type ty
Edges(refs, s, t, ty) ==
  {r \in refs : /\ r.source_card_id = s /\ r.target_card_id = t
                /\ r.reference_type = ty}

\* both cards of the last CreateReference exist and differ
DistinctStoredCards ==
  /\ last.cardId \in DOMAIN last.pre
  /\ last.body.target_card_id \in DOMAIN last.pre
  /\ last.cardId # last.body.target_card_id

\* C13: CreateReference(a, a, t) on a stored card a ends in InvalidArgument
\* whether or not t is in the vocabulary; no edge is inserted and no card's
\* version changes.
C13_SelfReferenceRejected ==
  (CreatedReference /\ last.cardId \in DOMAIN last.pre
     /\ last.body.target_card_id = last.cardId) =>
    /\ DomainError = "InvalidArgument"
    /\ card_references = PreRefs
    /\ cards = last.pre

\* a self-reference of a type outside the vocabulary, refused as a
\* self-reference
C13_Witness ==
  /\ CreatedReference /\ last.cardId \in DOMAIN last.pre
  /\ last.body.target_card_id = last.cardId
  /\ last.body.reference_type \notin referenceTypes
  /\ last.error = "self"

\* C14: while the edge (s, t, ty) exists, CreateReference(s, t, ty) ends in
\* AlreadyExists, inserts nothing and leaves the version of s; with a valid
\* type under which no edge from s to t exists it succeeds.
C14_DuplicateReferenceRejected ==
  (CreatedReference /\ DistinctStoredCards
     /\ last.body.reference_type \in referenceTypes) =>
    IF Edges(PreRefs, last.cardId, last.body.target_card_id,
             last.body.reference_type) # {}
      THEN /\ DomainError = "AlreadyExists"
           /\ card_references = PreRefs
           /\ cards = last.pre
      ELSE last.status = 201

\* the edge (s, t, blocks) exists and (s, t, blocked_by) has been created
C14_Witness ==
  /\ CreatedReference /\ last.status = 201
  /\ Edges(PreRefs, last.cardId, last.body.target_card_id, "blocks") # {}
  /\ last.body.reference_type = "blocked_by"

\* C15: CreateReference ends in NotFound when the source or the target card
\* does not exist, and in InvalidArgument when the type is outside the
\* vocabulary; in both cases no edge is inserted and no version changes.
C15_ReferenceOfUnknownCardOrType ==
  CreatedReference =>
    /\ (last.cardId \notin DOMAIN last.pre
          \/ last.body.target_card_id \notin DOMAIN last.pre) =>
         DomainError = "NotFound" /\ card_references = PreRefs /\ cards = last.pre
    /\ (DistinctStoredCards /\ last.body.reference_type \notin referenceTypes) =>
         /\ DomainError = "InvalidArgument"
         /\ card_references = PreRefs /\ cards = last.pre

\* the source exists, the target does not
C15_Witness ==
  /\ CreatedReference /\ DomainError = "NotFound"
  /\ last.cardId \in DOMAIN last.pre
  /\ last.body.target_card_id \notin DOMAIN last.pre

\* C16: a successful CreateReference(s, t, ty) increases the version of s
\* by one and leaves every other field of s and every other card, t
\* included, unchanged.
C16_ReferenceAddBumpsSourceOnly ==
  (CreatedReference /\ last.status = 201) =>
    cards = [last.pre EXCEPT ![last.cardId].version = @ + 1]

C16_Witness ==
  /\ CreatedReference /\ last.status = 201
  /\ cards[last.cardId].version = 2
  /\ cards[last.body.target_card_id].version = 1

\* C17: a successful CreateReference(A, B, ty) adds exactly the edge
\* (A, B, ty) and no edge from B; the inverse edge (B, A, inverse(ty)) is
\* stored only by its own call, and that call succeeds although (A, B, ty)
\* exists.
C17_NoInverseEdgeCreated ==
  /\ (CreatedReference /\ last.status = 201) =>
       /\ PreRefs \subseteq card_references
       /\ Cardinality(card_references \ PreRefs) = 1
       /\ card_references \ PreRefs =
            Edges(card_references, last.cardId, last.body.target_card_id,
                  last.body.reference_type) \ PreRefs
  /\ (CreatedReference /\ DistinctStoredCards
        /\ last.body.reference_type \in referenceTypes
        /\ Edges(PreRefs, last.cardId, last.body.target_card_id,
                 last.body.reference_type) = {}
        /\ Edges(PreRefs, last.body.target_card_id, last.cardId,
                 INVERSE_REFERENCE_TYPE[last.body.reference_type]) # {}) =>
       last.status = 201

\* (B, A, blocked_by) has been created while (A, B, blocks) was stored
C17_Witness ==
  /\ CreatedReference /\ last.status = 201
  /\ last.body.reference_type = "blocked_by"
  /\ Edges(PreRefs, last.body.target_card_id, last.cardId, "blocks") # {}
  /\ Cardinality(card_references) = 2

\* C18: DeleteReference(cardId, referenceId) ends in NotFound and deletes
\* nothing when no reference has that id or its source is not cardId;
\* otherwise it removes exactly that edge and increases the version of its
\* source by one, leaving the target unchanged.
C18_DeleteReferenceOfItsSource ==
  DeletedReference =>
    LET found == {r \in PreRefs :
                    r.id = last.refId /\ r.source_card_id = last.cardId}
    IN  IF found = {}
          THEN DomainError = "NotFound" /\ NothingWritten
          ELSE /\ last.status = 200
               /\ card_references = PreRefs \ found
               /\ Cardinality(found) = 1
               /\ cards = [last.pre EXCEPT ![last.cardId].version = @ + 1]

\* the edge from card 1 to card 2 was created and deleted again
C18_Witness ==
  /\ DeletedReference /\ last.status = 200
  /\ card_references = {}
  /\ \E r \in PreRefs : r.id = last.refId /\ r.source_card_id = last.cardId
  /\ cards[last.cardId].version = 3
  /\ \A c \in DOMAIN cards : c # last.cardId => cards[c].version = 1

-----------------------------------------------------------------------------
(* Claims about comments *)

AddedComment == last.status # 0 /\ last.op = "POST /cards/:id/comments"

DeletedComment == last.status # 0 /\ last.op = "DELETE /comments/:id"

PreComments == last.preOther[2]    \* comments when the call was processed

\* C19: AddComment by a registered author ends in NotFound when the card
\* does not exist and in InvalidArgument when the message is empty or
\* missing, and then no table changes; otherwise it appends exactly one
\* comment, of status created, on that card with that message, and increases
\* that card's version by one, every other card staying as it was.
C19_AddCommentBumpsItsCard ==
  (AddedComment /\ last.userId \in users) =>
    IF last.cardId \notin DOMAIN last.pre
      THEN DomainError = "NotFound" /\ NothingWritten
    ELSE IF ~Has(last.body, "message") \/ last.body.message = ""
      THEN DomainError = "InvalidArgument" /\ NothingWritten
    ELSE /\ last.status = 201
         /\ Len(comments) = Len(PreComments) + 1
         /\ SubSeq(comments, 1, Len(PreComments)) = PreComments
         /\ comments[Len(comments)].card_id = last.cardId
         /\ comments[Len(comments)].message = last.body.message
         /\ comments[Len(comments)].status = "created"
         /\ cards = [last.pre EXCEPT ![last.cardId].version = @ + 1]

\* a comment added to the second of two cards
C19_Witness ==
  /\ AddedComment /\ last.status = 201 /\ last.userId \in users
  /\ Len(cards) = 2 /\ last.cardId = 2
  /\ cards[1].version = 1 /\ cards[2].version = 2
  /\ Len(comments) = 1

\* C20: DeleteComment on a stored comment of status created sets the status
\* to deleted, keeps the row with its message, and increases the parent
\* card's version by one; on a comment already deleted it ends in
\* InvalidArgument and changes neither the comment nor any version.
C20_CommentDeletedOnce ==
  (DeletedComment /\ last.commentId \in DOMAIN PreComments) =>
    IF PreComments[last.commentId].status = "created"
      THEN /\ last.status = 200
           /\ comments = [PreComments EXCEPT ![last.commentId].status = "deleted"]
           /\ cards = [last.pre EXCEPT
                         ![PreComments[last.commentId].card_id].version = @ + 1]
      ELSE DomainError = "InvalidArgument" /\ NothingWritten

\* the second delete of a comment: refused, the card bumped once by the
\* comment and once by its deletion
C20_Witness ==
  /\ DeletedComment /\ DomainError = "InvalidArgument"
  /\ comments[last.commentId].status = "deleted"
  /\ comments[last.commentId].message = "m1"
  /\ cards[comments[last.commentId].card_id].version = 3

-----------------------------------------------------------------------------
(* Claims about ListCards *)

\* the last call was a GET /cards; no write has completed since
Listed == last.status # 0 /\ last.op = "GET /cards"

Searched == Listed /\ Given(last.query, "search")

Range(seq) == {seq[i] : i \in DOMAIN seq}

\* the filters of the specification that the query supplies
SuppliedFilters(query) ==
  {k \in {"id", "project_id", "status", "priority", "type"} : Given(query, k)}

\* the cards whose current title or description holds the term
CardsHolding(term) ==
  {c \in DOMAIN cards :
     term \in Range(Tokens(cards[c].title)) \cup Range(Tokens(cards[c].description))}

\* C21: with a search string, what ListCards may answer is the same
\* whatever id, project id, status, priority or type filter comes with it:
\* the answer given is one the search string alone may get.
C21_SearchIgnoresFilters ==
  Searched =>
    /\ last.result \in GetCards([search |-> last.query.search])
    /\ \A f \in Filters :
         GetCards(f @@ [search |-> last.query.search])
           = GetCards([search |-> last.query.search])

\* a search sent with priority=75 has returned a card of another priority
C21_Witness ==
  /\ Searched /\ Given(last.query, "priority")
  /\ \E c \in Range(last.result) : cards[c].priority # last.query.priority

\* C22: without a search string ListCards answers exactly the cards that
\* pass every supplied filter (id, project id, status, priority, type),
\* each once, ordered by priority descending and then creation time
\* descending; an empty sequence when no card passes.
C22_FiltersCombineWithAnd ==
  (Listed /\ ~Given(last.query, "search")) =>
    /\ Range(last.result) =
         {c \in DOMAIN cards :
            \A k \in SuppliedFilters(last.query) : cards[c][k] = last.query[k]}
    /\ Cardinality(Range(last.result)) = Len(last.result)
    /\ \A i, j \in DOMAIN last.result :
         i < j => ~PriorityThenCreated(last.result[j], last.result[i])

\* C23: in every state the index holds for each card the tokens of its
\* current title and description and nothing else, so a search answers
\* exactly the cards whose current title or description holds the term.
C23_IndexFollowsCards ==
  /\ cards_fts =
       UNION {Postings(cards[c].id, cards[c].title, cards[c].description) :
                c \in DOMAIN cards}
  /\ Searched =>
       Range(last.result) = CardsHolding(Tokens(last.query.search)[1])

\* a card's title was changed from "login" to "fix crash"; a search for
\* login no longer answers it
C23_Witness ==
  /\ Searched /\ last.query.search = "login"
  /\ \E i \in DOMAIN cards_audit :
       /\ cards_audit[i].old_title = "login"
       /\ cards_audit[i].new_title = "fix crash"
       /\ cards[cards_audit[i].card_id].title = "fix crash"
       /\ cards_audit[i].card_id \notin Range(last.result)

\* the term occurs once in the title of card c and not in its description
InTitleOnly(c, term) ==
  /\ Cardinality({n \in DOMAIN Tokens(cards[c].title) :
                    Tokens(cards[c].title)[n] = term}) = 1
  /\ term \notin Range(Tokens(cards[c].description))

\* the term occurs once in the description of card c and not in its title
InDescriptionOnly(c, term) ==
  /\ Cardinality({n \in DOMAIN Tokens(cards[c].description) :
                    Tokens(cards[c].description)[n] = term}) = 1
  /\ term \notin Range(Tokens(cards[c].title))

TextSize(c) == Len(Tokens(cards[c].title)) + Len(Tokens(cards[c].description))

\* C24: in the answer to a search, a card that holds the term once, in its
\* title, stands before a card of the same length that holds it once, in
\* its description.
C24_TitleMatchRanksFirst ==
  Searched =>
    \A i, j \in DOMAIN last.result :
      (/\ InTitleOnly(last.result[i], Tokens(last.query.search)[1])
       /\ InDescriptionOnly(last.result[j], Tokens(last.query.search)[1])
       /\ TextSize(last.result[i]) = TextSize(last.result[j]))
        => i < j

\* the card created second holds the term in its title, the card created
\* first holds it in its description: the second is answered first
C24_Witness ==
  /\ Searched /\ last.result = <<2, 1>>
  /\ InTitleOnly(2, Tokens(last.query.search)[1])
  /\ InDescriptionOnly(1, Tokens(last.query.search)[1])
  /\ TextSize(1) = TextSize(2)

-----------------------------------------------------------------------------
(* Claims about CreateCard *)

\* the last call was a POST /cards by a registered user
CreatedCard ==
  last.status # 0 /\ last.op = "POST /cards" /\ last.userId \in users

\* the body lacks the project or the title, or holds a status outside the
\* enum or a priority outside 0..100
CreateInvalid ==
  \/ ~Has(last.body, "project_id") \/ ~Has(last.body, "title")
  \/ Has(last.body, "status") /\ last.body.status \notin validStatuses
  \/ /\ Has(last.body, "priority")
     /\ \/ NumLess(last.body.priority, 0)
        \/ NumGreater(last.body.priority, 100)

\* the body names a project that is not stored
CreateNoProject ==
  Has(last.body, "project_id")
    /\ last.body.project_id \notin 1..Len(last.preOther[1])

\* C25: CreateCard with a stored project and a title appends one card with
\* the body's values, status backlog and priority 50 where the body gives
\* none, type task, version 1 and the caller as creator; it ends in NotFound
\* for a project that is not stored and in InvalidArgument for a missing
\* project or title, a status outside the enum or a priority outside 0..100,
\* and a call that fails inserts no card.
C25_CreateCardDefaultsAndErrors ==
  CreatedCard =>
    /\ ~CreateInvalid /\ ~CreateNoProject =>
         /\ last.status = 201
         /\ Len(cards) = Len(last.pre) + 1
         /\ SubSeq(cards, 1, Len(last.pre)) = last.pre
         /\ LET card == cards[Len(cards)]
            IN  /\ card.project_id = last.body.project_id
                /\ card.title = last.body.title
                /\ card.status = IF Has(last.body, "status")
                                   THEN last.body.status ELSE "backlog"
                /\ card.priority = IF Has(last.body, "priority")
                                     THEN last.body.priority ELSE 50
                /\ card.type = "task"
                /\ card.version = 1
                /\ card.created_by = last.userId
    /\ CreateInvalid \/ CreateNoProject =>
         /\ cards = last.pre
         /\ \/ CreateInvalid /\ DomainError = "InvalidArgument"
            \/ CreateNoProject /\ DomainError = "NotFound"
-----------------------------------------------------------------------------
(* Claims about CreateProject *)

\* the last call was a POST /projects
CreatedProject == last.status # 0 /\ last.op = "POST /projects"

\* the projects stored when the last call was processed
PreProjects == last.preOther[1]

\* the last call named the host, owner and repository of a stored project
NamedStoredRepository ==
  \E i \in DOMAIN PreProjects : PreProjects[i] = last.body

\* C26: CreateProject with the host, owner and repository of a stored
\* project ends in AlreadyExists and leaves the projects as they were, and
\* no two stored projects have the same host, owner and repository.
C26_OneProjectPerRepository ==
  /\ CreatedProject /\ NamedStoredRepository =>
       DomainError = "AlreadyExists" /\ projects = PreProjects
  /\ \A i, j \in DOMAIN projects : projects[i] = projects[j] => i = j

\* a repository was refused while it and another one were stored
C26_Witness ==
  /\ CreatedProject /\ NamedStoredRepository
  /\ DomainError = "AlreadyExists"
  /\ Len(projects) >= 2 /\ projects[1] = last.body
-----------------------------------------------------------------------------
(* Claims about cards in a terminal status *)

terminalStatuses == {"done", "wont_do", "invalid"}

\* the last call was a PATCH, with a body the handler accepts, of a card
\* stored with a terminal status
PatchedTerminal ==
  /\ Processed /\ PreCard.status \in terminalStatuses
  /\ ~StatusRejected(last.body) /\ ~PriorityRejected(last.body)
  /\ Updates(last.body) # {}

\* the value the patch of the last call gives column f
PatchedValue(f) == IF Has(last.body, f) THEN last.body[f] ELSE PreCard[f]

\* C27: UpdateCard does not look at the stored status: a valid patch of a
\* card that is done, wont_do or invalid is never refused by the handler
\* (the one failure is the full-text index's, which undoes the statement),
\* it stores the title, description, priority and status it names, a status
\* that is not terminal included, raises the version by one when a value
\* changed and appends its audit row.
C27_TerminalStatusNotEnforced ==
  PatchedTerminal =>
    /\ last.status # 200 =>
         /\ last.status = 500
         /\ FtsDeleteFails(cards_fts, PatchedValue("title"),
                           PatchedValue("description"))
         /\ cards = last.pre /\ cards_audit = last.auditPre
    /\ last.status = 200 =>
         /\ \A f \in PatchColumns : PostCard[f] = PatchedValue(f)
         /\ PostCard.version =
              PreCard.version
                + (IF \E f \in PatchColumns : PatchedValue(f) # PreCard[f]
                     THEN 1 ELSE 0)
         /\ Len(cards_audit) = Len(last.auditPre) + 1
         /\ cards_audit[Len(cards_audit)].card_id = last.cardId
         /\ cards_audit[Len(cards_audit)].changed_by = last.userId

\* a card that was done is back in the backlog, one version later, and the
\* change is audited
C27_Witness ==
  /\ PatchedTerminal /\ last.status = 200
  /\ PreCard.status = "done" /\ PostCard.status = "backlog"
  /\ PostCard.version = PreCard.version + 1
  /\ cards_audit[Len(cards_audit)].old_status = "done"
  /\ cards_audit[Len(cards_audit)].new_status = "backlog"
-----------------------------------------------------------------------------
(* Claims about the stored cards *)

\* C28: in every state every card's status is one of the seven statuses,
\* its priority is an integer from 0 to 100, its type is one of the six
\* card types and its version is at least 1; and no step lowers the version
\* of a card.
C28_CardColumnsStayInRange ==
  /\ [](\A c \in DOMAIN cards :
          /\ cards[c].status \in validStatuses
          /\ IsInteger(cards[c].priority) /\ cards[c].priority \in 0..100
          /\ cards[c].type \in cardTypes
          /\ cards[c].version >= 1)
  /\ [][\A c \in DOMAIN cards : cards'[c].version >= cards[c].version]_vars
-----------------------------------------------------------------------------
(* Claims about references under concurrent calls *)

\* the triple of the last CreateReference was valid and not stored when
\* the call was served
CreatedFreshReference ==
  /\ CreatedReference /\ DistinctStoredCards
  /\ last.body.reference_type \in referenceTypes
  /\ Edges(PreRefs, last.cardId, last.body.target_card_id,
           last.body.reference_type) = {}

\* C29: however CreateReference and DeleteReference calls in flight
\* together are served, no two stored edges have the same source, target
\* and type, no edge joins a card to itself, every edge's type is one of
\* the eleven and both its ends are stored cards; and of two identical
\* CreateReference calls in flight together, served one after the other,
\* the first succeeds and the second ends in AlreadyExists and writes
\* nothing.
C29_ReferencesUnderConcurrentCalls ==
  /\ \A e1, e2 \in card_references :
       (/\ e1.source_card_id = e2.source_card_id
        /\ e1.target_card_id = e2.target_card_id
        /\ e1.reference_type = e2.reference_type) => e1 = e2
  /\ \A e \in card_references :
       /\ e.source_card_id # e.target_card_id
       /\ e.reference_type \in referenceTypes
       /\ e.source_card_id \in DOMAIN cards
       /\ e.target_card_id \in DOMAIN cards
  /\ (CreatedFreshReference
        /\ BagIn([op |-> "create", cardId |-> last.cardId,
                  body |-> last.body], last.waiting)) => last.status = 201
  /\ (CreatedReference /\ last.raced) =>
       DomainError = "AlreadyExists" /\ NothingWritten

\* two identical calls were in flight together; the first was answered 201
\* and the second has just been refused, one edge being stored
C29_Witness ==
  /\ CreatedReference /\ last.raced
  /\ DomainError = "AlreadyExists"
  /\ Cardinality(card_references) = 1
  /\ Edges(card_references, last.cardId, last.body.target_card_id,
           last.body.reference_type) # {}
-----------------------------------------------------------------------------
(* Claims about history *)

\* C30: no step changes or removes an audit row, removes a card row or a
\* comment row, changes a comment's message, or turns a deleted comment
\* back into a created one.
C30_HistoryIsKept ==
  [][/\ Len(cards_audit') >= Len(cards_audit)
     /\ SubSeq(cards_audit', 1, Len(cards_audit)) = cards_audit
     /\ Len(cards') >= Len(cards)
     /\ \A c \in DOMAIN cards : cards'[c].id = cards[c].id
     /\ Len(comments') >= Len(comments)
     /\ \A i \in DOMAIN comments :
          /\ comments'[i].id = comments[i].id
          /\ comments'[i].card_id = comments[i].card_id
          /\ comments'[i].message = comments[i].message
          /\ comments[i].status = "deleted" => comments'[i].status = "deleted"
    ]_vars

\* a comment of an updated card has just been deleted: the audit row of
\* the update, the card and the comment with its message are still stored
C30_Witness ==
  /\ DeletedComment /\ last.status = 200
  /\ cards_audit # <<>> /\ cards_audit = last.auditPre
  /\ Len(cards) = Len(last.pre)
  /\ comments[last.commentId].status = "deleted"
  /\ comments[last.commentId].message = "m1"

-----------------------------------------------------------------------------
(* Claims about the caller's identity *)

\* the last call was an UpdateCard, CreateCard or AddComment by a caller
\* that has no row in users
CalledByUnknownUser ==
  /\ last.status # 0
  /\ last.op \in {"PATCH", "POST /cards", "POST /cards/:id/comments"}
  /\ last.userId \notin users

\* C31: changed_by of every audit row and created_by of every card and
\* comment name a row of users, and an UpdateCard, CreateCard or AddComment
\* by a caller without a users row is refused and leaves every table as it
\* was.
C31_UnknownCallerWritesNothing ==
  /\ \A i \in DOMAIN cards_audit : cards_audit[i].changed_by \in users
  /\ \A c \in DOMAIN cards : cards[c].created_by \in users
  /\ \A i \in DOMAIN comments : comments[i].created_by \in users
  /\ CalledByUnknownUser =>
       last.status \notin {200, 201} /\ NothingWritten
-----------------------------------------------------------------------------
(* Claims about the audit rows of a card taken together *)

\* the audit rows of card c, in insertion order
AuditTrail(c) == SelectSeq(cards_audit, LAMBDA row : row.card_id = c)

OldValues(row) ==
  [title |-> row.old_title, description |-> row.old_description,
   status |-> row.old_status, priority |-> row.old_priority]

NewValues(row) ==
  [title |-> row.new_title, description |-> row.new_description,
   status |-> row.new_status, priority |-> row.new_priority]

\* C32: for each card, the new title, description, status and priority of
\* each of its audit rows are the old values of its next audit row, and
\* the new values of its last audit row are the values the card holds; also
\* when UpdateCard calls on the card are in flight together.
C32_AuditRowsFormAChain ==
  \A c \in DOMAIN cards :
    LET trail == AuditTrail(c) IN
    /\ \A i \in 1..(Len(trail) - 1) :
         NewValues(trail[i]) = OldValues(trail[i + 1])
    /\ trail # <<>> =>
         NewValues(trail[Len(trail)]) = [f \in PatchColumns |-> cards[c][f]]
-----------------------------------------------------------------------------
(* Claims about the display of references *)

\* the panel has rendered its rows
Rendered == last.status # 0 /\ last.op = "SidePanel"

\* C33: the inverse lookup is defined for each of the eleven reference
\* types and for nothing else, gives a type of the vocabulary, gives the
\* type back when applied twice, and leaves only relates_to as it is; each
\* type has a label; and the panel shows an incoming edge of a type of the
\* vocabulary under the label of its inverse, an incoming blocks edge as
\* "Blocked by".
C33_InverseLookupIsAnInvolution ==
  /\ Cardinality(referenceTypes) = 11
  /\ DOMAIN INVERSE_REFERENCE_TYPE = referenceTypes
  /\ DOMAIN REFERENCE_TYPE_LABELS = referenceTypes
  /\ \A t \in referenceTypes :
       /\ INVERSE_REFERENCE_TYPE[t] \in referenceTypes
       /\ INVERSE_REFERENCE_TYPE[INVERSE_REFERENCE_TYPE[t]] = t
       /\ INVERSE_REFERENCE_TYPE[t] = t <=> t = "relates_to"
  /\ Rendered =>
       LET out == Len(last.references.outgoing) IN
       /\ Len(last.rows) = out + Len(last.references.incoming)
       /\ \A n \in DOMAIN last.references.incoming :
            LET ref == last.references.incoming[n] IN
            /\ last.rows[out + n].card = ref.source_card_id
            /\ ref.reference_type \in referenceTypes =>
                 /\ \E t \in referenceTypes :
                      /\ INVERSE_REFERENCE_TYPE[t] = ref.reference_type
                      /\ last.rows[out + n].label = REFERENCE_TYPE_LABELS[t]
                 /\ last.rows[out + n].label # REFERENCE_TYPE_LABELS[ref.reference_type]
                      <=> ref.reference_type # "relates_to"
            /\ ref.reference_type = "blocks" =>
                 last.rows[out + n].label = "Blocked by"

\* the panel shows, below an outgoing edge, an incoming blocks edge as
\* "Blocked by" its source
C33_Witness ==
  /\ Rendered
  /\ Len(last.references.outgoing) = 1 /\ Len(last.references.incoming) = 1
  /\ last.references.incoming[1].reference_type = "blocks"
  /\ last.rows[2] = [label |-> "Blocked by", card |-> 2]
-----------------------------------------------------------------------------
(* Claims about titles *)

\* C34: no stored card has an empty or null title; CreateCard with a
\* missing or empty title ends in InvalidArgument and inserts nothing.
C34_TitleNeverEmpty ==
  /\ \A c \in DOMAIN cards : cards[c].title \notin {"", Null}
  /\ (CreatedCard /\ Has(last.body, "project_id")
        /\ (~Has(last.body, "title") \/ last.body.title = "")) =>
       DomainError = "InvalidArgument" /\ cards = last.pre

-----------------------------------------------------------------------------
(* Claims about the terminal UI *)

\* every load that was started has completed, and the last one to write
\* this.cards did not throw
Settled ==
  /\ tui.started /\ tui.projects # <<>>
  /\ tui.loading = EmptyBag /\ ~tui.failed

\* C35: once every started load has completed, currentProjectIndex is an
\* index of projects, and the cards held and listed are those fetched for
\* the project at that index, the one the status bar counts, in whatever
\* order the loads completed.
C35_CardsOfTheCurrentProject ==
  Settled =>
    /\ tui.currentProjectIndex \in 0..(Len(tui.projects) - 1)
    /\ tui.statusBar.project = tui.currentProjectIndex + 1
    /\ tui.cardsList = getCardOptions(tui.cards)
    /\ \E fetched \in getCards(tui.projects[tui.currentProjectIndex + 1]) :
         tui.cards = sortCards(fetched)

====
